---- MODULE Spec2Model ----
(***************************************************************************)
(* A model of collector/btrfs_linux.go: the Btrfs collector of             *)
(* node_exporter.  NewBtrfsCollector opens the statistics source, Update   *)
(* reads the per-filesystem statistics and updateBtrfsStats flattens each  *)
(* filesystem into labelled gauge metrics that it sends, one blocking      *)
(* send at a time, on the channel the caller supplies.                     *)
(***************************************************************************)
EXTENDS Integers, Sequences, FiniteSets, TLC

(***************************************************************************)
(* Bounds of the model.                                                    *)
(***************************************************************************)
\* longest sequence of filesystems one Stats() call returns
MaxStats == 2
\* largest capacity of the caller's channel (0 is an unbuffered channel)
MaxCap == 1
\* most devices of one filesystem
MaxDevices == 2
\* most layout records present in one allocation category of the wide inputs
MaxLayouts == 2

(***************************************************************************)
(* Go values.                                                              *)
(***************************************************************************)
\* the nil pointer, the nil error, the nil interface
Nil == [nil |-> TRUE]

\* float64(x) of an unsigned byte count.  The conversion is exact up to
\* 2^53; every integer of this model is below 2^31, so the converted value
\* is the number itself.
Float64(x) == x

\* A Go slice is a window of length len on a backing array arr; its
\* capacity is the length of the array.  A composite literal has a backing
\* array of exactly its elements.
SliceLit(xs) == [arr |-> xs, len |-> Len(xs)]

SliceVal(s) == SubSeq(s.arr, 1, s.len)

\* append(s, xs...): when the capacity suffices the elements are written
\* into the backing array s shares with every slice cut from it; otherwise
\* a new array is allocated and s's array is left alone.  result is the
\* slice returned, base is s as it is seen afterwards.
GoAppend(s, xs) ==
    IF s.len + Len(xs) <= Len(s.arr)
    THEN LET arr2 == [i \in 1..Len(s.arr) |->
                        IF i > s.len /\ i <= s.len + Len(xs)
                        THEN xs[i - s.len] ELSE s.arr[i]]
         IN [result |-> [arr |-> arr2, len |-> s.len + Len(xs)],
             base   |-> [arr |-> arr2, len |-> s.len]]
    ELSE [result |-> SliceLit(SliceVal(s) \o xs), base |-> s]

\* range over a Go map visits every key once, in an order the language
\* leaves unspecified: any enumeration of the keys.
RangeOrders(m) ==
    LET n == Cardinality(DOMAIN m)
    IN {o \in [1..n -> DOMAIN m] : \A i, j \in 1..n : o[i] = o[j] => i = j}

\* fmt.Errorf(prefix + ": %v", err)
Errorf(prefix, e) == [msg |-> prefix \o ": " \o e.msg]

(***************************************************************************)
(* The statistics the source can return (btrfs.Stats).                     *)
(***************************************************************************)
Categories == <<"data", "metadata", "system">>

Layouts == <<"single", "dup", "raid0", "raid1", "raid5", "raid6", "raid10">>

IndexOf(seq, x) == CHOOSE i \in 1..Len(seq) : seq[i] = x

RECURSIVE KSubsets(_, _)
KSubsets(S, k) ==
    IF k = 0 THEN {{}}
    ELSE LET smaller == KSubsets(S, k - 1)
         IN smaller \cup {T \cup {x} : T \in smaller, x \in S}

DevicePool == <<"sda", "sdb", "sdc", "sdd">>

DeviceNames == {DevicePool[i] : i \in 1..MaxDevices}

\* a *btrfs.Device
Device(name) == [Size |-> 100 * IndexOf(DevicePool, name)]

\* a *btrfs.LayoutUsage, or nil when the filesystem has none of that layout
LayoutUsage(a, l, present) ==
    IF <<a, l>> \in present
    THEN [UsedBytes  |-> 1000 * IndexOf(Categories, a) + 10 * IndexOf(Layouts, l) + 1,
          TotalBytes |-> 1000 * IndexOf(Categories, a) + 10 * IndexOf(Layouts, l) + 2,
          Ratio      |-> IndexOf(Layouts, l) + 1]
    ELSE Nil

\* a *btrfs.AllocationStats
AllocationStats(a, present) ==
    [ReservedBytes |-> 7 * IndexOf(Categories, a),
     Single |-> LayoutUsage(a, "single", present),
     Dup    |-> LayoutUsage(a, "dup", present),
     Raid0  |-> LayoutUsage(a, "raid0", present),
     Raid1  |-> LayoutUsage(a, "raid1", present),
     Raid5  |-> LayoutUsage(a, "raid5", present),
     Raid6  |-> LayoutUsage(a, "raid6", present),
     Raid10 |-> LayoutUsage(a, "raid10", present)]

\* a *btrfs.Stats
Snapshot(vol, devs, present) ==
    [Label |-> vol.Label,
     UUID |-> vol.UUID,
     Devices |-> [n \in devs |-> Device(n)],
     Allocation |-> [GlobalRsvSize |-> 50,
                     Data     |-> AllocationStats("data", present),
                     Metadata |-> AllocationStats("metadata", present),
                     System   |-> AllocationStats("system", present)]]

Volumes == <<[Label |-> "vol1", UUID |-> "abc"], [Label |-> "vol2", UUID |-> "def"]>>

\* the same few layouts present in one category, or in all three
LayoutChoices ==
    {{<<a, l>> : a \in as, l \in ls} :
        as \in {{"data"}, {"metadata"}, {"system"}, {"data", "metadata", "system"}},
        ls \in KSubsets({Layouts[i] : i \in 1..Len(Layouts)}, MaxLayouts)}

\* filesystems with every set of devices, and one-device filesystems with
\* every choice of layouts
WideSnapshots ==
    {Snapshot(Volumes[1], devs, {}) : devs \in SUBSET DeviceNames}
    \cup
    {Snapshot(Volumes[1], {"sda"}, present) : present \in LayoutChoices}

\* two volumes, each bare or with two devices and some layouts
FewSnapshots ==
    {Snapshot(Volumes[1], {}, {}),
     Snapshot(Volumes[1], {"sda", "sdb"}, {<<"data", "single">>, <<"data", "raid1">>}),
     Snapshot(Volumes[2], {}, {}),
     Snapshot(Volumes[2], {"sda", "sdb"},
              {<<"data", "raid0">>, <<"metadata", "dup">>, <<"system", "raid10">>})}

SeqsUpTo(S, n) == UNION {[1..k -> S] : k \in 0..n}

\* what c.fs.Stats() can return: a sequence of filesystems and no error, or
\* an error together with whatever was read before it
StatsResults ==
    {[stats |-> st, err |-> Nil] :
        st \in SeqsUpTo(FewSnapshots, MaxStats) \cup {<<s>> : s \in WideSnapshots}}
    \cup
    {[stats |-> st, err |-> [msg |-> "read error"]] : st \in SeqsUpTo(FewSnapshots, 1)}

(***************************************************************************)
(* The collector's functions.                                              *)
(***************************************************************************)
namespace == "node"

subsystem == "btrfs"

\* prometheus.BuildFQName
BuildFQName(ns, sub, name) == ns \o "_" \o sub \o "_" \o name

\* prometheus.NewDesc(fqName, help, variableLabels, nil)
NewDesc(fqName, help, variableLabels) ==
    [fqName |-> fqName, help |-> help, variableLabels |-> variableLabels]

\* prometheus.MustNewConstMetric(desc, GaugeValue, value, labelValues...)
NewConstMetric(desc, value, labelValues) ==
    [desc |-> desc, valueType |-> "gauge", value |-> value, labelValues |-> labelValues]

\* getLayoutStats without the nil check of lines 152-154: an absent layout
\* yields zero-valued metrics
getLayoutStats_placeholder(a, l, s) ==
    LET u == IF s = Nil THEN [UsedBytes |-> 0, TotalBytes |-> 0, Ratio |-> 0] ELSE s
    IN << [name  |-> "used_bytes",
           desc  |-> "Amount of used space by a layout/data type",
           value |-> Float64(u.UsedBytes),
           extraLabel      |-> <<"type", "mode">>,
           extraLabelValue |-> <<a, l>>],
          [name  |-> "total_bytes",
           desc  |-> "Amount of space allocated for a layout/data type",
           value |-> Float64(u.TotalBytes),
           extraLabel      |-> <<"type", "mode">>,
           extraLabelValue |-> <<a, l>>],
          [name  |-> "ratio",
           desc  |-> "Data allocation ratio for a layout/data type",
           value |-> u.Ratio,
           extraLabel      |-> <<"type", "mode">>,
           extraLabelValue |-> <<a, l>>] >>

getLayoutStats(a, l, s) ==
    IF s = Nil
    THEN <<>>
    ELSE << [name  |-> "used_bytes",
             desc  |-> "Amount of used space by a layout/data type",
             value |-> Float64(s.UsedBytes),
             extraLabel      |-> <<"type", "mode">>,
             extraLabelValue |-> <<a, l>>],
            [name  |-> "total_bytes",
             desc  |-> "Amount of space allocated for a layout/data type",
             value |-> Float64(s.TotalBytes),
             extraLabel      |-> <<"type", "mode">>,
             extraLabelValue |-> <<a, l>>],
            [name  |-> "ratio",
             desc  |-> "Data allocation ratio for a layout/data type",
             value |-> s.Ratio,
             extraLabel      |-> <<"type", "mode">>,
             extraLabelValue |-> <<a, l>>] >>

\* getAllocationStats with the raid10 line (146) forgotten
getAllocationStats_noRaid10(a, s) ==
    << [name  |-> "reserved_bytes",
        desc  |-> "Amount of space reserved for a data type",
        value |-> Float64(s.ReservedBytes),
        extraLabel      |-> <<"type">>,
        extraLabelValue |-> <<a>>] >>
    \o getLayoutStats(a, "single", s.Single)
    \o getLayoutStats(a, "dup", s.Dup)
    \o getLayoutStats(a, "raid0", s.Raid0)
    \o getLayoutStats(a, "raid1", s.Raid1)
    \o getLayoutStats(a, "raid5", s.Raid5)
    \o getLayoutStats(a, "raid6", s.Raid6)

\* getAllocationStats with the single and dup lines (140, 141) exchanged
getAllocationStats_dupFirst(a, s) ==
    << [name  |-> "reserved_bytes",
        desc  |-> "Amount of space reserved for a data type",
        value |-> Float64(s.ReservedBytes),
        extraLabel      |-> <<"type">>,
        extraLabelValue |-> <<a>>] >>
    \o getLayoutStats(a, "dup", s.Dup)
    \o getLayoutStats(a, "single", s.Single)
    \o getLayoutStats(a, "raid0", s.Raid0)
    \o getLayoutStats(a, "raid1", s.Raid1)
    \o getLayoutStats(a, "raid5", s.Raid5)
    \o getLayoutStats(a, "raid6", s.Raid6)
    \o getLayoutStats(a, "raid10", s.Raid10)

getAllocationStats(a, s) ==
    << [name  |-> "reserved_bytes",
        desc  |-> "Amount of space reserved for a data type",
        value |-> Float64(s.ReservedBytes),
        extraLabel      |-> <<"type">>,
        extraLabelValue |-> <<a>>] >>
    \o getLayoutStats(a, "single", s.Single)
    \o getLayoutStats(a, "dup", s.Dup)
    \o getLayoutStats(a, "raid0", s.Raid0)
    \o getLayoutStats(a, "raid1", s.Raid1)
    \o getLayoutStats(a, "raid5", s.Raid5)
    \o getLayoutStats(a, "raid6", s.Raid6)
    \o getLayoutStats(a, "raid10", s.Raid10)

\* the device_size metrics of the devices in the order the range visits them
RECURSIVE deviceMetrics(_, _)
deviceMetrics(s, order) ==
    IF order = <<>>
    THEN <<>>
    ELSE << [name  |-> "device_size",
             desc  |-> "Size of a device that is part of the filesystem.",
             value |-> Float64(s.Devices[Head(order)].Size),
             extraLabel      |-> <<"device">>,
             extraLabelValue |-> <<Head(order)>>] >>
         \o deviceMetrics(s, Tail(order))

\* updateBtrfsStats with the device loop (lines 89-99) placed after the
\* data category (line 101)
btrfsMetrics_devicesLate(s, order) ==
    << [name  |-> "device_count",
        desc  |-> "Number of devices that are part of the filesystem.",
        value |-> Float64(Cardinality(DOMAIN s.Devices)),
        extraLabel      |-> <<>>,
        extraLabelValue |-> <<>>],
       [name  |-> "global_rsv_size_bytes",
        desc  |-> "Size of global reserve.",
        value |-> Float64(s.Allocation.GlobalRsvSize),
        extraLabel      |-> <<>>,
        extraLabelValue |-> <<>>] >>
    \o getAllocationStats("data", s.Allocation.Data)
    \o deviceMetrics(s, order)
    \o getAllocationStats("metadata", s.Allocation.Metadata)
    \o getAllocationStats("system", s.Allocation.System)

\* the metrics list updateBtrfsStats builds before it sends anything
btrfsMetrics(s, order) ==
    << [name  |-> "device_count",
        desc  |-> "Number of devices that are part of the filesystem.",
        value |-> Float64(Cardinality(DOMAIN s.Devices)),
        extraLabel      |-> <<>>,
        extraLabelValue |-> <<>>],
       [name  |-> "global_rsv_size_bytes",
        desc  |-> "Size of global reserve.",
        value |-> Float64(s.Allocation.GlobalRsvSize),
        extraLabel      |-> <<>>,
        extraLabelValue |-> <<>>] >>
    \o deviceMetrics(s, order)
    \o getAllocationStats("data", s.Allocation.Data)
    \o getAllocationStats("metadata", s.Allocation.Metadata)
    \o getAllocationStats("system", s.Allocation.System)

\* line 106 written as devLabels = append(devLabels, m.extraLabel...): the
\* labels of one metric stay in devLabels
loopLabels_assignBack(dl, m) ==
    LET r == GoAppend(dl, m.extraLabel)
    IN [labels |-> r.result, devLabels |-> r.result]

\* line 106, labels := append(devLabels, m.extraLabel...): the labels of this metric
\* and devLabels as the next iteration finds it
loopLabels(dl, m) ==
    LET r == GoAppend(dl, m.extraLabel)
    IN [labels |-> r.result, devLabels |-> r.base]

\* line 115 with the two fields exchanged
loopLabelValues_swapped(s, m) ==
    IF Len(m.extraLabelValue) > 0
    THEN <<s.UUID, s.Label>> \o m.extraLabelValue
    ELSE <<s.UUID, s.Label>>

\* lines 115-118: labelValues of one metric
loopLabelValues(s, m) ==
    IF Len(m.extraLabelValue) > 0
    THEN <<s.Label, s.UUID>> \o m.extraLabelValue
    ELSE <<s.Label, s.UUID>>

\* line 120 written as a send that gives up when it would block
\* (select with a default case): the metric is dropped
chanSend_nonblocking(c, b, metric) ==
    IF Len(b) < c
    THEN [buf |-> Append(b, metric), blocked |-> FALSE]
    ELSE [buf |-> b, blocked |-> FALSE]

\* ch <- metric on a channel of capacity c whose buffer holds b: with a free
\* buffer slot the metric is buffered and the send completes; otherwise the
\* sender blocks until the consumer takes the metric (an unbuffered
\* channel has no slot, so every send waits for the consumer).
chanSend(c, b, metric) ==
    IF Len(b) < c
    THEN [buf |-> Append(b, metric), blocked |-> FALSE]
    ELSE [buf |-> b, blocked |-> TRUE]

\* the range loop of Update passing the first element every time
rangeElem_first(st, i) == st[1]

\* the element the range loop of Update hands to updateBtrfsStats
rangeElem(st, i) == st[i]

\* Update without the error check of lines 49-51
statsError_ignored(err) == Nil

\* the error Update returns after c.fs.Stats()
statsError(err) ==
    IF err # Nil THEN Errorf("failed to retrieve Btrfs stats", err) ELSE Nil

\* NewBtrfsCollector without the error check of lines 37-39
newBtrfsCollector_ignoresErr(fsys, err) == [collector |-> [fs |-> fsys], err |-> Nil]

\* what NewBtrfsCollector returns for the outcome of btrfs.NewFS(*sysPath)
newBtrfsCollector(fsys, err) ==
    IF err # Nil
    THEN [collector |-> Nil, err |-> Errorf("failed to open sysfs", err)]
    ELSE [collector |-> [fs |-> fsys], err |-> Nil]

(***************************************************************************)
(* State.                                                                  *)
(***************************************************************************)
VARIABLES
    pc,          \* where the program is
    collector,   \* the Collector NewBtrfsCollector returned, or Nil
    newErr,      \* the error NewBtrfsCollector returned
    fsErr,       \* NewBtrfsCollector: the error btrfs.NewFS returned
    cap,         \* capacity of the channel ch the caller passes to Update
    buf,         \* metrics in the buffer of ch
    sendq,       \* the metric of the sender blocked on ch, if any
    received,    \* metrics the consumer of ch has taken
    stats,       \* Update: the statistics c.fs.Stats() returned
    statsErr,    \* Update: the error c.fs.Stats() returned
    statsCalls,  \* number of c.fs.Stats() calls made
    idx,         \* Update: position of the range loop over stats
    metrics,     \* updateBtrfsStats: the metrics list
    mi,          \* updateBtrfsStats: position of the range loop over metrics
    devLabels,   \* updateBtrfsStats: the devLabels slice
    segs,        \* history: the metrics each updateBtrfsStats call has sent
    updateErr    \* the error Update returned

vars == <<pc, collector, newErr, fsErr, cap, buf, sendq, received, stats,
          statsErr, statsCalls, idx, metrics, mi, devLabels, segs, updateErr>>

Init ==
    /\ pc = "start"
    /\ collector = Nil
    /\ newErr = Nil
    /\ fsErr = Nil
    /\ cap \in 0..MaxCap
    /\ buf = <<>>
    /\ sendq = <<>>
    /\ received = <<>>
    /\ stats = <<>>
    /\ statsErr = Nil
    /\ statsCalls = 0
    /\ idx = 0
    /\ metrics = <<>>
    /\ mi = 0
    /\ devLabels = SliceLit(<<>>)
    /\ segs = <<>>
    /\ updateErr = Nil

\* lines 35-44
NewBtrfsCollector ==
    /\ pc = "start"
    /\ \E r \in {[fs |-> [sysPath |-> "/sys"], err |-> Nil],
                 [fs |-> Nil, err |-> [msg |-> "no such file or directory"]]} :
         LET ret == newBtrfsCollector(r.fs, r.err)
         IN /\ fsErr' = r.err
            /\ collector' = ret.collector
            /\ newErr' = ret.err
            /\ pc' = IF ret.collector = Nil THEN "unusable" ELSE "ready"
    /\ UNCHANGED <<cap, buf, sendq, received, stats, statsErr, statsCalls, idx,
                   metrics, mi, devLabels, segs, updateErr>>

\* lines 47-52: the call of Stats() and the error check
Update ==
    /\ pc = "ready"
    /\ collector # Nil
    /\ \E r \in StatsResults :
         /\ stats' = r.stats
         /\ statsErr' = r.err
         /\ statsCalls' = statsCalls + 1
         /\ updateErr' = statsError(r.err)
         /\ pc' = IF statsError(r.err) # Nil THEN "returned" ELSE "range"
         /\ idx' = IF statsError(r.err) # Nil THEN idx ELSE 1
    /\ UNCHANGED <<collector, newErr, fsErr, cap, buf, sendq, received, metrics,
                   mi, devLabels, segs>>

\* lines 53-54 and 75-103: the next filesystem, its metrics list
updateBtrfsStats ==
    /\ pc = "range"
    /\ idx <= Len(stats)
    /\ LET s == rangeElem(stats, idx)
       IN \E order \in RangeOrders(s.Devices) :
            metrics' = btrfsMetrics(s, order)
    /\ devLabels' = SliceLit(<<"label", "uuid">>)
    /\ mi' = 1
    /\ segs' = Append(segs, <<>>)
    /\ pc' = "loop"
    /\ UNCHANGED <<collector, newErr, fsErr, cap, buf, sendq, received, stats,
                   statsErr, statsCalls, idx, updateErr>>

\* lines 105-126: one iteration of the loop over metrics, up to its send.
\* When the send completes at once the loop moves on; after the last metric
\* updateBtrfsStats returns and the loop of Update moves on.
SendMetric ==
    /\ pc = "loop"
    /\ mi <= Len(metrics)
    /\ LET s  == rangeElem(stats, idx)
           m  == metrics[mi]
           ll == loopLabels(devLabels, m)
           desc == NewDesc(BuildFQName(namespace, subsystem, m.name), m.desc,
                           SliceVal(ll.labels))
           labelValues == loopLabelValues(s, m)
           metric == NewConstMetric(desc, m.value, labelValues)
           out == chanSend(cap, buf, metric)
       IN /\ devLabels' = ll.devLabels
          /\ IF Len(desc.variableLabels) # Len(labelValues)
             THEN \* MustNewConstMetric panics
                  /\ pc' = "panic"
                  /\ UNCHANGED <<buf, sendq, segs, mi, idx>>
             ELSE /\ segs' = [segs EXCEPT ![Len(segs)] = Append(@, metric)]
                  /\ buf' = out.buf
                  /\ IF out.blocked
                     THEN /\ sendq' = <<metric>>
                          /\ pc' = "send"
                          /\ UNCHANGED <<mi, idx>>
                     ELSE /\ sendq' = sendq
                          /\ mi' = mi + 1
                          /\ pc' = IF mi = Len(metrics) THEN "range" ELSE "loop"
                          /\ idx' = IF mi = Len(metrics) THEN idx + 1 ELSE idx
    /\ UNCHANGED <<collector, newErr, fsErr, cap, received, stats, statsErr,
                   statsCalls, metrics, updateErr>>

\* line 57
Return ==
    /\ pc = "range"
    /\ idx > Len(stats)
    /\ updateErr' = Nil
    /\ pc' = "returned"
    /\ UNCHANGED <<collector, newErr, fsErr, cap, buf, sendq, received, stats,
                   statsErr, statsCalls, idx, metrics, mi, devLabels, segs>>

\* The consumer of ch receives: the oldest buffered metric, or, the buffer
\* being empty, the metric of the blocked sender.  A blocked sender's metric
\* moves into the slot that was freed and the sender resumes after line 125.
Receive ==
    /\ buf # <<>> \/ sendq # <<>>
    /\ received' = Append(received, Head(buf \o sendq))
    /\ buf' = Tail(buf \o sendq)
    /\ sendq' = <<>>
    /\ IF sendq # <<>>
       THEN /\ mi' = mi + 1
            /\ pc' = IF mi = Len(metrics) THEN "range" ELSE "loop"
            /\ idx' = IF mi = Len(metrics) THEN idx + 1 ELSE idx
       ELSE UNCHANGED <<pc, mi, idx>>
    /\ UNCHANGED <<collector, newErr, fsErr, cap, stats, statsErr, statsCalls,
                   metrics, devLabels, segs, updateErr>>

Next ==
    \/ NewBtrfsCollector
    \/ Update
    \/ updateBtrfsStats
    \/ SendMetric
    \/ Return
    \/ Receive

Spec == Init /\ [][Next]_vars

\* the goroutine running Update and the consumer of ch both keep running
FairSpec == Spec /\ WF_vars(updateBtrfsStats) /\ WF_vars(SendMetric)
                 /\ WF_vars(Return) /\ WF_vars(Receive)

(***************************************************************************)
(* Derived values.                                                         *)
(***************************************************************************)
\* everything the channel has accepted, in the order it was sent
Sent == received \o buf

RECURSIVE Concat(_)
Concat(ss) == IF ss = <<>> THEN <<>> ELSE Head(ss) \o Concat(Tail(ss))

TypeOK ==
    /\ pc \in {"start", "unusable", "ready", "range", "loop", "send", "returned", "panic"}
    /\ cap \in 0..MaxCap
    /\ Len(buf) <= cap
    /\ (pc = "send") = (sendq # <<>>)

(***************************************************************************)
(* What the properties speak of.                                           *)
(***************************************************************************)
CategorySet == {"data", "metadata", "system"}

LayoutSet == {"single", "dup", "raid0", "raid1", "raid5", "raid6", "raid10"}

\* the allocation record of category a in filesystem s
AllocationOf(s, a) ==
    CASE a = "data" -> s.Allocation.Data
      [] a = "metadata" -> s.Allocation.Metadata
      [] a = "system" -> s.Allocation.System

\* the layout record of layout l in category a of filesystem s, or Nil
LayoutOf(s, a, l) ==
    LET r == AllocationOf(s, a)
    IN CASE l = "single" -> r.Single
         [] l = "dup" -> r.Dup
         [] l = "raid0" -> r.Raid0
         [] l = "raid1" -> r.Raid1
         [] l = "raid5" -> r.Raid5
         [] l = "raid6" -> r.Raid6
         [] l = "raid10" -> r.Raid10

PresentLayouts(s, a) == {l \in LayoutSet : LayoutOf(s, a, l) # Nil}

\* The flattenings that have run to their end, looked at whenever
\* updateBtrfsStats has returned to the loop of Update.  (A finished
\* flattening sends nothing more, so what it has sent is seen in full there.)
Flattened == IF pc = "range" THEN {i \in 1..Len(segs) : i < idx} ELSE {}

Named(m, n) == m.desc.fqName = "node_btrfs_" \o n

\* metric m carries label n with value v
HasLabel(m, n, v) ==
    \E k \in 1..Len(m.desc.variableLabels) :
        /\ k <= Len(m.labelValues)
        /\ m.desc.variableLabels[k] = n
        /\ m.labelValues[k] = v

\* the metrics of seg that carry type = a and mode = l, in order
OfLayout(seg, a, l) ==
    SelectSeq(seg, LAMBDA m : HasLabel(m, "type", a) /\ HasLabel(m, "mode", l))

(***************************************************************************)
(* Properties.                                                             *)
(***************************************************************************)
\* C1: a flattened filesystem has emitted exactly 2 metrics, plus one per
\* device, plus, for each of data, metadata and system, one metric and three
\* more per layout present in that category.
C1_MetricCount ==
    \A i \in Flattened :
        Len(segs[i]) =
            2 + Cardinality(DOMAIN stats[i].Devices)
              + (1 + 3 * Cardinality(PresentLayouts(stats[i], "data")))
              + (1 + 3 * Cardinality(PresentLayouts(stats[i], "metadata")))
              + (1 + 3 * Cardinality(PresentLayouts(stats[i], "system")))

\* a filesystem with 2 devices, single and raid1 present in data and no
\* layout in metadata and system has been flattened into 13 metrics
C1_Witness ==
    \E i \in Flattened :
        /\ Cardinality(DOMAIN stats[i].Devices) = 2
        /\ PresentLayouts(stats[i], "data") = {"single", "raid1"}
        /\ PresentLayouts(stats[i], "metadata") = {}
        /\ PresentLayouts(stats[i], "system") = {}
        /\ Len(segs[i]) = 13

\* C2: for every category and layout of a flattened filesystem, an absent
\* layout record has no metric carrying that (type, mode) pair, and a
\* present one has exactly three: used_bytes, total_bytes and ratio, with
\* the record's used bytes, total bytes and ratio as values.
C2_LayoutMetrics ==
    \A i \in Flattened : \A a \in CategorySet : \A l \in LayoutSet :
        LET r  == LayoutOf(stats[i], a, l)
            ms == OfLayout(segs[i], a, l)
        IN IF r = Nil
           THEN ms = <<>>
           ELSE /\ Len(ms) = 3
                /\ Named(ms[1], "used_bytes") /\ ms[1].value = r.UsedBytes
                /\ Named(ms[2], "total_bytes") /\ ms[2].value = r.TotalBytes
                /\ Named(ms[3], "ratio") /\ ms[3].value = r.Ratio

\* a flattened filesystem with a present layout record in one category and
\* the record of the same layout absent in another
C2_Witness ==
    \E i \in Flattened : \E a, b \in CategorySet : \E l \in LayoutSet :
        /\ LayoutOf(stats[i], a, l) # Nil
        /\ LayoutOf(stats[i], b, l) = Nil
        /\ Len(OfLayout(segs[i], a, l)) = 3
        /\ OfLayout(segs[i], b, l) = <<>>

CategoryOrder == <<"data", "metadata", "system">>

LayoutOrder == <<"single", "dup", "raid0", "raid1", "raid5", "raid6", "raid10">>

NameOrder == <<"used_bytes", "total_bytes", "ratio">>

\* the place of a category metric in the order C4 states: category first,
\* reserved_bytes before the layouts, then layout, then name (the later of
\* two metrics has the larger rank); 0 for a metric that is no category
\* metric
Rank(m) ==
    IF \E a \in 1..3 : HasLabel(m, "type", CategoryOrder[a])
    THEN LET a == CHOOSE x \in 1..3 : HasLabel(m, "type", CategoryOrder[x])
         IN IF Named(m, "reserved_bytes")
            THEN 100 * a
            ELSE IF /\ \E l \in 1..7 : HasLabel(m, "mode", LayoutOrder[l])
                    /\ \E n \in 1..3 : Named(m, NameOrder[n])
                 THEN 100 * a
                      + 10 * (CHOOSE l \in 1..7 : HasLabel(m, "mode", LayoutOrder[l]))
                      + (CHOOSE n \in 1..3 : Named(m, NameOrder[n]))
                 ELSE 0
    ELSE 0

\* C4: the metrics of a flattened filesystem are device_count, then
\* global_rsv_size_bytes, then the device_size metrics, then the category
\* metrics; the category metrics come in the order data, metadata, system,
\* in each category reserved_bytes first and then the layouts in the order
\* single, dup, raid0, raid1, raid5, raid6, raid10, each with used_bytes,
\* total_bytes, ratio in that order.
C4_EmissionOrder ==
    \A i \in Flattened :
        LET seg == segs[i]
            n == Cardinality(DOMAIN stats[i].Devices)
        IN /\ Len(seg) >= 2 + n + 3
           /\ Named(seg[1], "device_count")
           /\ Named(seg[2], "global_rsv_size_bytes")
           /\ \A k \in 3..(2 + n) : Named(seg[k], "device_size")
           /\ \A k \in (3 + n)..Len(seg) : Rank(seg[k]) > 0
           /\ \A k \in (3 + n)..(Len(seg) - 1) : Rank(seg[k]) < Rank(seg[k + 1])
           /\ \A a \in 1..3 : \E k \in (3 + n)..Len(seg) : Rank(seg[k]) = 100 * a

\* a flattened filesystem with two devices and layouts in two categories
C4_Witness ==
    \E i \in Flattened : \E a, b \in CategorySet :
        /\ Cardinality(DOMAIN stats[i].Devices) = 2
        /\ a # b
        /\ PresentLayouts(stats[i], a) # {}
        /\ PresentLayouts(stats[i], b) # {}
        /\ Named(segs[i][4], "device_size")
        /\ Rank(segs[i][Len(segs[i])]) > 300

\* C5: every metric sent for a filesystem has label names that begin with
\* label, uuid and label values that begin with the label and the uuid of
\* that filesystem.
C5_BaseLabels ==
    \A i \in 1..Len(segs) : \A k \in 1..Len(segs[i]) :
        LET m == segs[i][k]
        IN /\ Len(m.desc.variableLabels) >= 2
           /\ Len(m.labelValues) >= 2
           /\ SubSeq(m.desc.variableLabels, 1, 2) = <<"label", "uuid">>
           /\ SubSeq(m.labelValues, 1, 2) = <<stats[i].Label, stats[i].UUID>>

\* two filesystems with different labels have been flattened, the second
\* after metrics with extra labels of the first
C5_Witness ==
    \E i, j \in Flattened :
        /\ i < j
        /\ stats[i].Label # stats[j].Label
        /\ stats[i].UUID # stats[j].UUID
        /\ Len(segs[i][Len(segs[i])].labelValues) > 2
        /\ segs[j][1].labelValues = <<stats[j].Label, stats[j].UUID>>

\* C6: the label names and label values of every metric sent have the same
\* length, and those after label, uuid are: none for device_count and
\* global_rsv_size_bytes; device = the name of a device for device_size, the
\* value being that device's size; type = a category for reserved_bytes;
\* type = a category, mode = a layout for used_bytes, total_bytes and ratio.
\* The loop never changes devLabels and the construction of a metric never
\* panics on mismatched lists.
C6_ExtraLabels ==
    /\ pc # "panic"
    /\ pc \in {"loop", "send"} => devLabels = SliceLit(<<"label", "uuid">>)
    /\ \A i \in 1..Len(segs) : \A k \in 1..Len(segs[i]) :
        LET m  == segs[i][k]
            ns == m.desc.variableLabels
            vs == m.labelValues
            xn == SubSeq(ns, 3, Len(ns))
            xv == SubSeq(vs, 3, Len(vs))
        IN /\ Len(ns) = Len(vs)
           /\ CASE Named(m, "device_count") \/ Named(m, "global_rsv_size_bytes") ->
                     xn = <<>>
                [] Named(m, "device_size") ->
                     /\ xn = <<"device">>
                     /\ xv[1] \in DOMAIN stats[i].Devices
                     /\ m.value = stats[i].Devices[xv[1]].Size
                [] Named(m, "reserved_bytes") ->
                     /\ xn = <<"type">>
                     /\ xv[1] \in CategorySet
                [] Named(m, "used_bytes") \/ Named(m, "total_bytes") \/ Named(m, "ratio") ->
                     /\ xn = <<"type", "mode">>
                     /\ xv[1] \in CategorySet
                     /\ xv[2] \in LayoutSet
                [] OTHER -> FALSE

\* a metric with the extra label type alone has been sent right after one
\* with the extra labels type and mode
C6_Witness ==
    \E i \in 1..Len(segs) : \E k \in 1..(Len(segs[i]) - 1) :
        /\ segs[i][k].desc.variableLabels = <<"label", "uuid", "type", "mode">>
        /\ segs[i][k + 1].desc.variableLabels = <<"label", "uuid", "type">>
        /\ Cardinality(DOMAIN stats[i].Devices) > 0

\* C7: when Stats() has failed, Update has returned the wrapped error, after
\* a single call of Stats(), without flattening any filesystem or sending
\* any metric.
C7_StatsFailure ==
    statsErr # Nil =>
        /\ pc = "returned"
        /\ updateErr = [msg |-> "failed to retrieve Btrfs stats: " \o statsErr.msg]
        /\ statsCalls = 1
        /\ segs = <<>>
        /\ Sent = <<>>
        /\ sendq = <<>>

\* Stats() has failed after it had read a filesystem
C7_Witness ==
    /\ statsErr # Nil
    /\ stats # <<>>
    /\ pc = "returned"
    /\ updateErr # Nil

\* what is observed of a metric
Emission(m) ==
    [fqName |-> m.desc.fqName, kind |-> m.valueType, value |-> m.value,
     labels |-> m.desc.variableLabels, values |-> m.labelValues]

\* the metric section 4.1 describes
Expected(s, n, v, ls, vs) ==
    [fqName |-> "node_btrfs_" \o n, kind |-> "gauge", value |-> v,
     labels |-> <<"label", "uuid">> \o ls, values |-> <<s.Label, s.UUID>> \o vs]

ExpectedLayout(s, a, l) ==
    LET r == LayoutOf(s, a, l)
    IN IF r = Nil THEN <<>>
       ELSE << Expected(s, "used_bytes", r.UsedBytes, <<"type", "mode">>, <<a, l>>),
               Expected(s, "total_bytes", r.TotalBytes, <<"type", "mode">>, <<a, l>>),
               Expected(s, "ratio", r.Ratio, <<"type", "mode">>, <<a, l>>) >>

ExpectedCategory(s, a) ==
    << Expected(s, "reserved_bytes", AllocationOf(s, a).ReservedBytes, <<"type">>, <<a>>) >>
    \o Concat([l \in 1..7 |-> ExpectedLayout(s, a, LayoutOrder[l])])

\* steps 1 to 5 of flatten for the devices taken in the order o
ExpectedFlatten(s, o) ==
    << Expected(s, "device_count", Cardinality(DOMAIN s.Devices), <<>>, <<>>),
       Expected(s, "global_rsv_size_bytes", s.Allocation.GlobalRsvSize, <<>>, <<>>) >>
    \o [k \in 1..Len(o) |->
          Expected(s, "device_size", s.Devices[o[k]].Size, <<"device">>, <<o[k]>>)]
    \o Concat([a \in 1..3 |-> ExpectedCategory(s, CategoryOrder[a])])

\* the enumerations of a finite set
Orderings(S) ==
    {o \in [1..Cardinality(S) -> S] : \A i, j \in 1..Cardinality(S) : o[i] = o[j] => i = j}

\* C8: when Stats() has succeeded and Update has returned, Update returned
\* no error and the channel has accepted, in this order and with nothing
\* else, the metrics of a flattening of the first filesystem, then those of
\* a flattening of the second, and so on to the last.
C8_AllInOrder ==
    (pc = "returned" /\ statsErr = Nil) =>
        /\ updateErr = Nil
        /\ Len(segs) = Len(stats)
        /\ \A i \in 1..Len(segs) :
              \E o \in Orderings(DOMAIN stats[i].Devices) :
                  [k \in 1..Len(segs[i]) |-> Emission(segs[i][k])]
                      = ExpectedFlatten(stats[i], o)
        /\ Sent = Concat(segs)

\* Update has returned after two different filesystems, and each metric of
\* the first precedes each metric of the second in the channel
C8_Witness ==
    /\ pc = "returned"
    /\ updateErr = Nil
    /\ Len(stats) = 2
    /\ stats[1] # stats[2]
    /\ Cardinality(DOMAIN stats[2].Devices) = 2
    /\ Len(Sent) = Len(segs[1]) + Len(segs[2])
    /\ SubSeq(Sent, Len(segs[1]) + 1, Len(Sent)) = segs[2]

\* C9: once NewBtrfsCollector has run, either the handle opened and it
\* returned a collector holding it and no error, or the handle did not open
\* and it returned no collector and the wrapped error, and then Stats() is
\* never called and nothing is sent.
C9_Initialize ==
    pc # "start" =>
        IF fsErr = Nil
        THEN /\ collector # Nil
             /\ collector.fs # Nil
             /\ newErr = Nil
        ELSE /\ collector = Nil
             /\ newErr = [msg |-> "failed to open sysfs: " \o fsErr.msg]
             /\ pc = "unusable"
             /\ statsCalls = 0
             /\ segs = <<>>
             /\ Sent = <<>>

\* the handle could not be opened
C9_Witness ==
    /\ fsErr # Nil
    /\ newErr # Nil
    /\ collector = Nil
    /\ pc = "unusable"

\* C10, as the specification states it: when Update has returned, the
\* consumer has received every metric that was sent.
C10_Original ==
    pc = "returned" => received = Concat(segs)

\* C10, amended: when Update has returned, the channel has accepted every
\* metric of every filesystem (the consumer has received it or it is in the
\* buffer of the channel; with an unbuffered channel the consumer has
\* received all of them) and no send is pending; after it has returned it
\* sends nothing; and, the consumer receiving whatever is offered, an Update
\* that has read the statistics returns.
C10_Amended ==
    /\ [](pc = "returned" =>
            /\ sendq = <<>>
            /\ Sent = Concat(segs)
            /\ statsErr = Nil => (Len(segs) = Len(stats) /\ idx = Len(stats) + 1)
            /\ cap = 0 => received = Concat(segs))
    /\ [][pc = "returned" =>
            (pc' = "returned" /\ segs' = segs /\ sendq' = sendq /\ Sent' = Sent)]_vars
    /\ [](pc \in {"range", "loop", "send"} => <>(pc = "returned"))

\* Update has returned while metrics it sent are still in the buffer, the
\* buffer having been too small for all of them
C10_Witness ==
    /\ pc = "returned"
    /\ updateErr = Nil
    /\ cap > 0
    /\ Len(buf) = cap
    /\ received # <<>>
====
